---- MODULE Spec2Model ----
(***************************************************************************)
(* Model of bcbio/pipeline/fastq.py: staging of sequencing read files      *)
(* (get_fastq_files), gzip normalisation (_gzip_fastq, _bzip_gzip) and     *)
(* merging (merge, _merge_list_fastqs).                                    *)
(*                                                                         *)
(* A path is a record [loc, dir, stem, sfx, exts]: sfx is the sequence of  *)
(* suffixes appended to the stem and exts is the sequence of               *)
(* dot-extensions of the file name, so "in1/a.fastq.bz2" is                *)
(* [loc |-> "local", dir |-> "in1", stem |-> "a", sfx |-> <<>>,            *)
(*  exts |-> <<"fastq", "bz2">>].  The file system fs maps every existing  *)
(* local path to its content; a content is a sequence of chunks, each a    *)
(* term recording the bytes it holds (raw bytes of an input, or the output *)
(* of a command applied to a content).                                     *)
(*                                                                         *)
(* Specifications: Spec (one get_fastq_files call), SpecRestage (the call  *)
(* repeated), SpecGzip (direct _gzip_fastq / _bzip_gzip calls), SpecMerge  *)
(* (merge calls, each transform run to completion), SpecConc (two          *)
(* processes running the same transform step by step) and SpecCrash (one   *)
(* process whose calls may crash or have their command fail).              *)
(***************************************************************************)
EXTENDS Integers, Sequences, FiniteSets, TLC

VARIABLES
    fs,           \* local file system: existing path -> content
    dirs,         \* directories created by safe_makedir
    pc,           \* position of the running call
    data,         \* argument of get_fastq_files
    idx,          \* position of the for loop over data["files"]
    ready_files,  \* get_fastq_files: the list being built
    ready_src,    \* for each entry of ready_files, the index of the input it stems from
    should_gzip,  \* get_fastq_files: the batch-wide compress flag
    cmds,         \* external commands and delegates invoked by the running call
    outcome,      \* "none" while running, "ok", or the exception raised
    result,       \* the value returned by the running call
    args,         \* arguments of the running _gzip_fastq / merge call
    hist,         \* completed calls, oldest first
    procs,        \* step-by-step runs: process -> its call and position in it
    fs0           \* the file system the program started on

vars == <<fs, dirs, pc, data, idx, ready_files, ready_src, should_gzip, cmds,
          outcome, result, args, hist, procs, fs0>>

\* the variables of the step-by-step runs
txvars == <<procs, fs0>>

-----------------------------------------------------------------------------
(* Bounds *)

MaxFiles == 3
MaxCalls == 2
MaxSets == 3
MaxRestageFiles == 2
MaxTxSets == 2

-----------------------------------------------------------------------------
(* Paths *)

Path(loc, dir, stem, sfx, exts) ==
    [loc |-> loc, dir |-> dir, stem |-> stem, sfx |-> sfx, exts |-> exts]

\* Python's None, as a value comparable with paths
None == Path("none", "", "", <<>>, <<>>)

\* out_dir=None of _gzip_fastq and _bzip_gzip
NoDir == ""

in_a_fastq     == Path("local", "in1", "a", <<>>, <<"fastq">>)
in_a_fastq_bz2 == Path("local", "in1", "a", <<>>, <<"fastq", "bz2">>)
in_c_fastq_gz  == Path("local", "in1", "c", <<>>, <<"fastq", "gz">>)
in_b_bam       == Path("local", "in1", "b", <<>>, <<"bam">>)
s3_r_fastq     == Path("remote", "bucket", "r", <<>>, <<"fastq">>)
s3_d_bam       == Path("remote", "bucket", "d", <<>>, <<"bam">>)

LocalInputs == {in_a_fastq, in_a_fastq_bz2, in_c_fastq_gz, in_b_bam}
InputPaths == LocalInputs \cup {s3_r_fastq, s3_d_bam}

\* Inputs that may be absent from the local file system
MaybeMissing == {in_a_fastq, in_b_bam}

LastExt(p) == IF p.exts = <<>> THEN "" ELSE p.exts[Len(p.exts)]

\* os.path.splitext(p)[0]
splitext_base(p) ==
    IF p.exts = <<>> THEN p ELSE [p EXCEPT !.exts = SubSeq(p.exts, 1, Len(p.exts) - 1)]

\* p + ext
add_ext(p, ext) == [p EXCEPT !.exts = Append(p.exts, ext)]

\* os.path.join(out_dir, os.path.basename(p))
join_basename(out_dir, p) == [p EXCEPT !.loc = "local", !.dir = out_dir]

\* fname.endswith(".bam")
endswith_bam(p) == LastExt(p) = "bam"

\* objectstore.is_remote
is_remote(p) == p.loc = "remote"

\* utils.is_bzipped / utils.is_gzipped
is_bzipped(p) == LastExt(p) = "bz2"

is_gzipped(p) == LastExt(p) = "gz"

\* fastq.is_fastq: a read-format name, possibly with a compression extension
is_fastq(p) ==
    \/ LastExt(p) = "fastq"
    \/ /\ LastExt(p) \in {"gz", "bz2"}
       /\ LastExt(splitext_base(p)) = "fastq"

\* utils.file_exists / os.path.exists on the local file system f
file_exists(f, p) == p \in DOMAIN f

-----------------------------------------------------------------------------
(* File contents *)

Chunk(op, src, of) == [op |-> op, src |-> src, of |-> of]

\* the bytes an input file holds when the program starts
RawContent(p) == <<Chunk("raw", p, <<>>)>>

\* output of "gzip -c" on content c
GzipOf(c) == <<Chunk("gzip", None, c)>>

\* output of "bunzip2 -c | gzip" on content c
BunzipGzipOf(c) == <<Chunk("bunzip2_gzip", None, c)>>

\* f with path p holding content c
WriteFile(f, p, c) == [q \in DOMAIN f \cup {p} |-> IF q = p THEN c ELSE f[q]]

\* f without path p
RemoveFile(f, p) == [q \in DOMAIN f \ {p} |-> f[q]]

\* an external command or delegate: its name, the file it reads, the files it wrote
Cmd(cmd, on, out) == [cmd |-> cmd, on |-> on, out |-> out]

\* result of a transform: returned path, file system after, commands run, success
Ret(ret, f, run, ok) == [ret |-> ret, fs |-> f, cmds |-> run, ok |-> ok]

\* a call in hist: exc is "none" while it runs, "ok", or the exception raised;
\* cached tells whether every output path of the call existed when it began,
\* changed whether the call has modified the file system
CallRec(op, a, exc, ret, run, cached, changed) ==
    [op |-> op, args |-> a, exc |-> exc, ret |-> ret, cmds |-> run,
     cached |-> cached, changed |-> changed]

-----------------------------------------------------------------------------
(* Transform primitives *)

\* with file_transaction(out) as tx: do.run(cmd reading in_file, writing tx)
\* The command fails when its input is missing and the transaction then
\* discards the temporary file; on success the temporary file is renamed
\* onto out.
run_in_transaction(cmd, in_file, out, content, f) ==
    IF file_exists(f, in_file)
    THEN Ret(out, WriteFile(f, out, content), {Cmd(cmd, in_file, <<out>>)}, TRUE)
    ELSE Ret(None, f, {Cmd(cmd, in_file, <<>>)}, FALSE)

\* bzip_gzip_cached without the existence short-circuit
bzip_gzip_never_cached(f, gzipped_file) == FALSE

\* _bzip_gzip, line 86: the existence short-circuit
bzip_gzip_cached(f, gzipped_file) == file_exists(f, gzipped_file)

\* _bzip_gzip, lines 80-84: the path of the gzipped file
bzip_gzipped_file(in_file, out_dir) ==
    LET base == splitext_base(in_file)
    IN  IF out_dir # NoDir
        THEN join_basename(out_dir, add_ext(base, "gz"))
        ELSE add_ext(base, "gz")

_bzip_gzip(in_file, out_dir, f) ==
    IF ~is_bzipped(in_file) THEN Ret(in_file, f, {}, TRUE)
    ELSE
      LET base == splitext_base(in_file)
          gzipped_file == bzip_gzipped_file(in_file, out_dir)
      IN  IF is_fastq(base) /\ ~is_remote(in_file)
          THEN IF bzip_gzip_cached(f, gzipped_file)
               THEN Ret(gzipped_file, f, {}, TRUE)
               ELSE run_in_transaction("bunzip2_gzip", in_file, gzipped_file,
                                       BunzipGzipOf(f[in_file]), f)
          ELSE Ret(in_file, f, {}, TRUE)

\* gzip_branch without the test for an already gzipped file
gzip_branch_no_gz_check(in_file) ==
    IF is_fastq(in_file) /\ ~is_remote(in_file)
    THEN IF is_bzipped(in_file) THEN "bzip" ELSE "gzip"
    ELSE "asis"

\* _gzip_fastq, lines 56-59 and 72: which branch a file takes
gzip_branch(in_file) ==
    IF is_fastq(in_file) /\ ~is_remote(in_file)
    THEN IF is_bzipped(in_file) THEN "bzip"
         ELSE IF ~is_gzipped(in_file) THEN "gzip"
         ELSE "asis"
    ELSE "asis"

\* gzip_cached without the existence short-circuit
gzip_never_cached(f, gzipped_file) == FALSE

\* _gzip_fastq, line 64: the existence short-circuit
gzip_cached(f, gzipped_file) == file_exists(f, gzipped_file)

\* _gzip_fastq, lines 60-63: the path of the gzipped file
gzip_gzipped_file(in_file, out_dir) ==
    IF out_dir # NoDir
    THEN join_basename(out_dir, add_ext(in_file, "gz"))
    ELSE add_ext(in_file, "gz")

_gzip_fastq(in_file, out_dir, f) ==
    CASE gzip_branch(in_file) = "bzip" -> _bzip_gzip(in_file, out_dir, f)
      [] gzip_branch(in_file) = "gzip" ->
           LET gzipped_file == gzip_gzipped_file(in_file, out_dir)
           IN  IF gzip_cached(f, gzipped_file)
               THEN Ret(gzipped_file, f, {}, TRUE)
               ELSE run_in_transaction("gzip", in_file, gzipped_file,
                                       GzipOf(f[in_file]), f)
      [] OTHER -> Ret(in_file, f, {}, TRUE)

\* [_gzip_fastq(x, out_dir) for x in files], left to right; stops at the
\* first command failure
RECURSIVE gzip_all(_, _, _)
gzip_all(files, out_dir, f) ==
    IF files = <<>> THEN [rets |-> <<>>, fs |-> f, cmds |-> {}, ok |-> TRUE]
    ELSE
      LET r == _gzip_fastq(Head(files), out_dir, f)
      IN  IF ~r.ok THEN [rets |-> <<>>, fs |-> r.fs, cmds |-> r.cmds, ok |-> FALSE]
          ELSE LET rest == gzip_all(Tail(files), out_dir, r.fs)
               IN  [rets |-> <<r.ret>> \o rest.rets, fs |-> rest.fs,
                    cmds |-> r.cmds \cup rest.cmds, ok |-> rest.ok]

-----------------------------------------------------------------------------
(* Configuration and delegates of get_fastq_files *)

\* config["algorithm"].get("aligner"): "" stands for no aligner configured
NoAligner == ""

Aligners == {NoAligner, "bwa", "novoalign"}

\* alignment.metadata.get("support_bam", [])
support_bam == {"bwa"}

QualityFormats == {"standard", "illumina"}

\* the input lists of a staging call: up to MaxFiles distinct input paths
FileLists ==
    {l \in UNION {[1..n -> InputPaths] : n \in 0..MaxFiles} :
        \A i, j \in 1..Len(l) : i # j => l[i] # l[j]}

\* the arguments of a staging call; has_files is "files" in data
DataSet ==
    {d \in [has_files : BOOLEAN, files : FileLists, aligner : Aligners,
            bowtie_ref : BOOLEAN, trim_reads : BOOLEAN,
            quality_format : QualityFormats] :
        ~d.has_files => d.files = <<>>}

NoData ==
    [has_files |-> FALSE, files |-> <<>>, aligner |-> NoAligner,
     bowtie_ref |-> FALSE, trim_reads |-> FALSE, quality_format |-> "standard"]

\* _pipeline_needs_fastq without the registry lookup
_pipeline_needs_fastq_no_registry(d) == d.aligner # NoAligner

\* _pipeline_needs_fastq(config, data)
_pipeline_needs_fastq(d) ==
    LET aligner == d.aligner
        supports == aligner \in support_bam
    IN  aligner # NoAligner /\ ~supports

\* compute_should_gzip without the bowtie exception
compute_should_gzip_always(d) == TRUE

\* lines 22-26: Bowtie does not accept gzipped fastq
compute_should_gzip(d) == ~d.bowtie_ref

\* line 37: the explicit quality conversion applies
needs_groom(d) == ~d.trim_reads /\ d.quality_format # "standard"

\* convert_bam_to_fastq -> alignprep.prep_fastq_inputs([in_file], data):
\* one (single-end) or two (paired) gzipped read files
bam_fastq_outputs(fname, n) ==
    [k \in 1..n |->
        Path("local", "align_prep", fname.stem, <<IF k = 1 THEN "_1" ELSE "_2">>,
             <<"fastq", "gz">>)]

\* content of the k-th read file converted from a BAM file
BamFastqContent(fname, k) ==
    <<Chunk(IF k = 1 THEN "bam2fastq_1" ELSE "bam2fastq_2", fname, <<>>)>>

\* fastq.groom(fname, data, out_dir): the path it writes when it does not skip
groom_output(fname, out_dir) ==
    LET plain == IF is_gzipped(fname) \/ is_bzipped(fname)
                 THEN splitext_base(fname) ELSE fname
    IN  join_basename(out_dir, plain)

-----------------------------------------------------------------------------
(* Processes running a transform step by step *)

Procs == {"p1", "p2"}

\* a call: _gzip_fastq / _bzip_gzip (in_file, out_dir) or merge (files, out_file)
Task(op, in_file, out_dir, files, out_file) ==
    [op |-> op, in_file |-> in_file, out_dir |-> out_dir, files |-> files,
     out_file |-> out_file]

NoTask == Task("none", None, NoDir, <<>>, None)

\* the state of a process: its call, the statement it is at, the mate list
\* of a merge it works on (1 or 2), the index j of the file being normalised
\* and the normalised files so far, the target and command of its open
\* transaction, how its last call ended (exc), the number of calls begun
\* (runs), whether one of them crashed and whether a command failed in the
\* running one
IdleProc ==
    [task |-> NoTask, at |-> "idle", list |-> 1, j |-> 1, norm |-> <<>>,
     target |-> None, txcmd |-> "", exc |-> "none", runs |-> 0,
     crashed |-> FALSE, faulted |-> FALSE]

-----------------------------------------------------------------------------
(* Initial state *)

\* every local input holds its own bytes, except a chosen set of missing ones
InitialFs == {[p \in LocalInputs \ m |-> RawContent(p)] : m \in SUBSET MaybeMissing}

Init ==
    /\ fs \in InitialFs
    /\ dirs = {}
    /\ pc = "idle"
    /\ data = NoData
    /\ idx = 0
    /\ ready_files = <<>>
    /\ ready_src = <<>>
    /\ should_gzip = TRUE
    /\ cmds = {}
    /\ outcome = "none"
    /\ result = <<>>
    /\ args = <<>>
    /\ hist = <<>>
    /\ procs = [p \in Procs |-> IdleProc]
    /\ fs0 = fs

-----------------------------------------------------------------------------
(* get_fastq_files *)

\* assert_has_files replaced by a default of no files
assert_has_files_defaulted(d) == TRUE

\* line 20: assert "files" in data
assert_has_files(d) == d.has_files

\* assert_ready looking at the first member only
assert_ready_first_only(rf, f) ==
    rf # <<>> => (~is_remote(rf[1]) => file_exists(f, rf[1]))

\* lines 46-48: every member is remote or exists
assert_ready(rf, f) ==
    \A i \in 1..Len(rf) : ~is_remote(rf[i]) => file_exists(f, rf[i])

fname == data.files[idx]

\* the delegates (conversion, groom) are functions of their input: in a run
\* that repeats an earlier one, a delegate answers as it did in that run
same_as_before(c) == hist # <<>> => c \in hist[Len(hist)].cmds

EndLoop == pc' = IF idx >= Len(data.files) THEN "gzip" ELSE "loop"

Fail(exc) ==
    /\ pc' = "failed"
    /\ outcome' = exc

\* lines 17-26, the argument drawn from the set D
StageEntry(D) ==
    /\ UNCHANGED txvars
    /\ pc = "idle"
    /\ \E d \in D :
        /\ data' = d
        /\ IF assert_has_files(d)
           THEN /\ pc' = IF d.files = <<>> THEN "gzip" ELSE "loop"
                /\ should_gzip' = compute_should_gzip(d)
                /\ idx' = 1
                /\ UNCHANGED outcome
           ELSE /\ Fail("AssertionError")
                /\ UNCHANGED <<should_gzip, idx>>
    /\ ready_files' = <<>>
    /\ ready_src' = <<>>
    /\ cmds' = {}
    /\ UNCHANGED <<fs, dirs, result, args, hist>>

get_fastq_files_entry == StageEntry(DataSet)

\* lines 28-31: a BAM file the aligner cannot read is converted; the list is
\* replaced by the conversion's output
resolve_bam_convert ==
    /\ UNCHANGED txvars
    /\ pc = "loop"
    /\ endswith_bam(fname)
    /\ _pipeline_needs_fastq(data)
    /\ \E n \in 1..2 :
        LET outs == bam_fastq_outputs(fname, n)
        IN  /\ same_as_before(Cmd("bam2fastq", fname, outs))
            /\ IF is_remote(fname) \/ file_exists(fs, fname)
               THEN /\ cmds' = cmds \cup {Cmd("bam2fastq", fname, outs)}
                    /\ ready_files' = outs
                    /\ ready_src' = [k \in 1..n |-> idx]
                    /\ fs' = [q \in DOMAIN fs \cup {outs[k] : k \in 1..n} |->
                                IF \E k \in 1..n : outs[k] = q
                                THEN BamFastqContent(fname,
                                        CHOOSE k \in 1..n : outs[k] = q)
                                ELSE fs[q]]
                    /\ idx' = idx + 1
                    /\ EndLoop
                    /\ UNCHANGED outcome
               ELSE /\ cmds' = cmds \cup {Cmd("bam2fastq", fname, <<>>)}
                    /\ Fail("CalledProcessError")
                    /\ UNCHANGED <<ready_files, ready_src, fs, idx>>
    /\ UNCHANGED <<dirs, data, should_gzip, result, args, hist>>

\* lines 32-33: a BAM file the aligner reads replaces the list
resolve_bam_asis ==
    /\ UNCHANGED txvars
    /\ pc = "loop"
    /\ endswith_bam(fname)
    /\ ~_pipeline_needs_fastq(data)
    /\ ready_files' = <<fname>>
    /\ ready_src' = <<idx>>
    /\ idx' = idx + 1
    /\ EndLoop
    /\ UNCHANGED <<fs, dirs, data, should_gzip, cmds, outcome, result, args, hist>>

\* lines 34-35
resolve_remote ==
    /\ UNCHANGED txvars
    /\ pc = "loop"
    /\ ~endswith_bam(fname)
    /\ is_remote(fname)
    /\ ready_files' = Append(ready_files, fname)
    /\ ready_src' = Append(ready_src, idx)
    /\ idx' = idx + 1
    /\ EndLoop
    /\ UNCHANGED <<fs, dirs, data, should_gzip, cmds, outcome, result, args, hist>>

\* lines 37-39: fastq.groom returns a path it wrote, or None to skip the file
resolve_groom ==
    /\ UNCHANGED txvars
    /\ pc = "loop"
    /\ ~endswith_bam(fname)
    /\ ~is_remote(fname)
    /\ needs_groom(data)
    /\ dirs' = dirs \cup {"fastq_convert"}
    /\ \E skip \in BOOLEAN :
        LET out == groom_output(fname, "fastq_convert")
            ret == IF skip THEN None ELSE out
        IN  /\ same_as_before(Cmd("groom", fname, IF skip THEN <<>> ELSE <<out>>))
            /\ cmds' = cmds \cup {Cmd("groom", fname, IF skip THEN <<>> ELSE <<out>>)}
            /\ IF skip \/ file_exists(fs, fname)
               THEN /\ ready_files' = Append(ready_files, ret)
                    /\ ready_src' = Append(ready_src, idx)
                    /\ fs' = IF skip THEN fs
                             ELSE WriteFile(fs, out, <<Chunk("groom", None, fs[fname])>>)
                    /\ idx' = idx + 1
                    /\ EndLoop
                    /\ UNCHANGED outcome
               ELSE /\ Fail("CalledProcessError")
                    /\ UNCHANGED <<ready_files, ready_src, fs, idx>>
    /\ UNCHANGED <<data, should_gzip, result, args, hist>>

\* lines 40-41
resolve_asis ==
    /\ UNCHANGED txvars
    /\ pc = "loop"
    /\ ~endswith_bam(fname)
    /\ ~is_remote(fname)
    /\ ~needs_groom(data)
    /\ ready_files' = Append(ready_files, fname)
    /\ ready_src' = Append(ready_src, idx)
    /\ idx' = idx + 1
    /\ EndLoop
    /\ UNCHANGED <<fs, dirs, data, should_gzip, cmds, outcome, result, args, hist>>

\* the indices of the entries of rf that are not None, in order
RECURSIVE not_none_indices(_, _)
not_none_indices(rf, i) ==
    IF i > Len(rf) THEN <<>>
    ELSE (IF rf[i] # None THEN <<i>> ELSE <<>>) \o not_none_indices(rf, i + 1)

\* lines 42-45: drop the None entries, then gzip the batch when should_gzip
filter_and_gzip ==
    /\ UNCHANGED txvars
    /\ pc = "gzip"
    /\ LET keep == not_none_indices(ready_files, 1)
           kept == [k \in 1..Len(keep) |-> ready_files[keep[k]]]
           r == gzip_all(kept, "fastq", fs)
       IN  /\ ready_src' = [k \in 1..Len(keep) |-> ready_src[keep[k]]]
           /\ IF should_gzip
              THEN /\ dirs' = dirs \cup {"fastq"}
                   /\ fs' = r.fs
                   /\ cmds' = cmds \cup r.cmds
                   /\ IF r.ok
                      THEN /\ ready_files' = r.rets
                           /\ pc' = "check"
                           /\ UNCHANGED outcome
                      ELSE /\ ready_files' = kept
                           /\ Fail("CalledProcessError")
              ELSE /\ ready_files' = kept
                   /\ pc' = "check"
                   /\ UNCHANGED <<dirs, fs, cmds, outcome>>
    /\ UNCHANGED <<data, idx, should_gzip, result, args, hist>>

\* lines 46-49
check_and_return ==
    /\ UNCHANGED txvars
    /\ pc = "check"
    /\ IF assert_ready(ready_files, fs)
       THEN /\ pc' = "done"
            /\ outcome' = "ok"
            /\ result' = ready_files
       ELSE /\ Fail("AssertionError")
            /\ UNCHANGED result
    /\ UNCHANGED <<fs, dirs, data, idx, ready_files, ready_src, should_gzip,
                   cmds, args, hist>>

-----------------------------------------------------------------------------
(* Properties of get_fastq_files *)

GzipCmds == {c \in cmds : c.cmd \in {"gzip", "bunzip2_gzip"}}

CmdsOn(p) == {c \in cmds : c.on = p}

Returned == pc = "done"

\* the entries of the list that stem from input i
EntriesOf(i) == {k \in 1..Len(ready_files) : ready_src[k] = i}

\* C1: every path of the returned list is remote or exists on local storage
\* when the call returns; a missing non-remote member makes the call fail
\* with an AssertionError and return nothing.
C1_ReturnedPathsExist ==
    /\ Returned =>
          /\ outcome = "ok"
          /\ result = ready_files
          /\ \A k \in 1..Len(result) :
                is_remote(result[k]) \/ file_exists(fs, result[k])
    /\ (/\ pc = "failed"
        /\ data.has_files
        /\ outcome # "CalledProcessError") =>
          /\ outcome = "AssertionError"
          /\ result = <<>>
          /\ \E k \in 1..Len(ready_files) :
                ~is_remote(ready_files[k]) /\ ~file_exists(fs, ready_files[k])

C1_Witness ==
    /\ pc = "failed"
    /\ outcome = "AssertionError"
    /\ data.has_files
    /\ Len(ready_files) = 2
    /\ is_remote(ready_files[1])
    /\ ~file_exists(fs, ready_files[2])

\* C2: no input is lost silently: when staging returns, every input is
\* represented in the result, except the inputs for which quality-format
\* normalization returned no output.
C2_NoSilentLoss ==
    Returned =>
        \A i \in 1..Len(data.files) :
            \/ EntriesOf(i) # {}
            \/ Cmd("groom", data.files[i], <<>>) \in cmds

\* C3: a remote input triggers no local transform and is returned unchanged,
\* whatever its file name and the configuration.
C3_RemoteUntouched ==
    \A i \in 1..Len(data.files) :
        is_remote(data.files[i]) =>
            /\ CmdsOn(data.files[i]) = {}
            /\ Returned => \E k \in EntriesOf(i) : result[k] = data.files[i]

\* C4: an aligned-binary input whose configured aligner is not in the
\* support_bam registry is handed to the conversion and the list becomes its
\* one or more read-format outputs; with an aligner in the registry the list
\* becomes exactly the original path, and that path is never converted or
\* compressed.
C4_BamBranch ==
    /\ (/\ pc \in {"loop", "gzip"}
        /\ idx > 1
        /\ endswith_bam(data.files[idx - 1])
        /\ data.aligner # NoAligner) =>
          LET f == data.files[idx - 1]
          IN  IF data.aligner \notin support_bam
              THEN /\ Cmd("bam2fastq", f, ready_files) \in cmds
                   /\ Len(ready_files) >= 1
                   /\ \A k \in 1..Len(ready_files) : is_fastq(ready_files[k])
                   /\ EntriesOf(idx - 1) = 1..Len(ready_files)
              ELSE /\ ready_files = <<f>>
                   /\ ready_src = <<idx - 1>>
                   /\ CmdsOn(f) = {}
    /\ Returned =>
          \A k \in 1..Len(result) :
              LET f == data.files[ready_src[k]]
              IN  (endswith_bam(f) /\ data.aligner # NoAligner) =>
                      IF data.aligner \notin support_bam
                      THEN /\ is_fastq(result[k])
                           /\ \E c \in CmdsOn(f) : c.cmd = "bam2fastq"
                      ELSE /\ result[k] = f
                           /\ CmdsOn(f) = {}

C4_Witness ==
    /\ Returned
    /\ Len(data.files) = 2
    /\ data.files[1] = in_b_bam
    /\ data.aligner = "bwa"
    /\ ~data.bowtie_ref
    /\ result[1] = in_b_bam
    /\ Len(result) = 2

C6_BatchGzip ==
    /\ (pc # "idle" /\ data.bowtie_ref) =>
          /\ GzipCmds = {}
          /\ "fastq" \notin dirs
    /\ (Returned /\ ~data.bowtie_ref) =>
          \A k \in 1..Len(result) :
              LET x == result[k]
              IN  IF is_fastq(x) /\ ~is_remote(x)
                  THEN is_gzipped(x)
                  ELSE /\ x = data.files[ready_src[k]]
                       /\ \A c \in CmdsOn(x) : c \notin GzipCmds

C6_Witness ==
    /\ Returned
    /\ ~data.bowtie_ref
    /\ Len(result) = 3
    /\ GzipCmds # {}
    /\ \E k \in 1..3 : is_remote(result[k])
    /\ \E k \in 1..3 : endswith_bam(result[k])

\* C7: quality-format normalization runs only on an input that is neither
\* aligned-binary nor remote, with trimming disabled and a non-standard
\* quality encoding; a file for which it returns no output is absent from
\* the result and does not make staging fail, and the other files appear in
\* their input order.
C7_GroomSkip ==
    /\ \A c \in cmds :
          c.cmd = "groom" =>
              /\ ~endswith_bam(c.on)
              /\ ~is_remote(c.on)
              /\ ~data.trim_reads
              /\ data.quality_format # "standard"
    /\ Returned =>
          \A i \in 1..Len(data.files) :
              Cmd("groom", data.files[i], <<>>) \in cmds =>
                  /\ outcome = "ok"
                  /\ EntriesOf(i) = {}
                  /\ \A j \in 1..Len(data.files) :
                        Cmd("groom", data.files[j], <<>>) \notin cmds =>
                            EntriesOf(j) # {}
                  /\ \A j, k \in 1..Len(result) :
                        j < k => ready_src[j] <= ready_src[k]

Next ==
    \/ get_fastq_files_entry
    \/ resolve_bam_convert
    \/ resolve_bam_asis
    \/ resolve_remote
    \/ resolve_groom
    \/ resolve_asis
    \/ filter_and_gzip
    \/ check_and_return

Spec == Init /\ [][Next]_vars

-----------------------------------------------------------------------------
(* Direct calls of the gzip normalisation *)

OutDirs == {NoDir, "fastq"}

\* _gzip_fastq(in_file, out_dir), run to completion
gzip_fastq_call ==
    /\ UNCHANGED txvars
    /\ pc = "idle"
    /\ Len(hist) < MaxCalls
    /\ \E in_file \in InputPaths, out_dir \in OutDirs :
        LET r == _gzip_fastq(in_file, out_dir, fs)
        IN  /\ fs' = r.fs
            /\ hist' = Append(hist,
                   CallRec("_gzip_fastq", [in_file |-> in_file, out_dir |-> out_dir],
                           IF r.ok THEN "ok" ELSE "CalledProcessError",
                           <<r.ret>>, r.cmds, r.ok /\ file_exists(fs, r.ret),
                           r.fs # fs))
    /\ UNCHANGED <<dirs, pc, data, idx, ready_files, ready_src, should_gzip,
                   cmds, outcome, result, args>>

\* _bzip_gzip(in_file, out_dir), run to completion
bzip_gzip_call ==
    /\ UNCHANGED txvars
    /\ pc = "idle"
    /\ Len(hist) < MaxCalls
    /\ \E in_file \in InputPaths, out_dir \in OutDirs :
        LET r == _bzip_gzip(in_file, out_dir, fs)
        IN  /\ fs' = r.fs
            /\ hist' = Append(hist,
                   CallRec("_bzip_gzip", [in_file |-> in_file, out_dir |-> out_dir],
                           IF r.ok THEN "ok" ELSE "CalledProcessError",
                           <<r.ret>>, r.cmds, r.ok /\ file_exists(fs, r.ret),
                           r.fs # fs))
    /\ UNCHANGED <<dirs, pc, data, idx, ready_files, ready_src, should_gzip,
                   cmds, outcome, result, args>>

NextGzip ==
    \/ gzip_fastq_call
    \/ bzip_gzip_call

SpecGzip == Init /\ [][NextGzip]_vars

\* C8: gzip normalization of an already gzip-compressed input, with or
\* without an output directory, returns the input path, runs no command and
\* leaves the file system as it was.
C8_GzippedNoOp ==
    \A k \in 1..Len(hist) :
        (hist[k].op = "_gzip_fastq" /\ is_gzipped(hist[k].args.in_file)) =>
            /\ hist[k].exc = "ok"
            /\ hist[k].ret = <<hist[k].args.in_file>>
            /\ hist[k].cmds = {}
            /\ ~hist[k].changed

C8_Witness ==
    /\ Len(hist) = 2
    /\ \A k \in 1..2 :
          /\ hist[k].op = "_gzip_fastq"
          /\ hist[k].args.in_file = in_c_fastq_gz
    /\ hist[1].args.out_dir = NoDir
    /\ hist[2].args.out_dir = "fastq"

\* two consecutive completed calls normalising the same bzip2 read file
\* into the same output directory, the first of them successful
SameBzipTwice(k) ==
    /\ hist[k - 1].op \in {"_gzip_fastq", "_bzip_gzip"}
    /\ hist[k].op \in {"_gzip_fastq", "_bzip_gzip"}
    /\ hist[k].args = hist[k - 1].args
    /\ is_bzipped(hist[k].args.in_file)
    /\ is_fastq(hist[k].args.in_file)
    /\ hist[k - 1].exc = "ok"

\* C9: normalising a bzip2 read file twice into the same output directory
\* yields the same output path both times, and the second call runs no
\* bunzip2 | gzip pipeline because the output already exists.
C9_BzipIdempotent ==
    \A k \in 2..Len(hist) :
        SameBzipTwice(k) =>
            /\ hist[k].exc = "ok"
            /\ hist[k].ret = hist[k - 1].ret
            /\ hist[k].cmds = {}
            /\ hist[k].cached
            /\ ~hist[k].changed

C9_Witness ==
    /\ Len(hist) >= 2
    /\ SameBzipTwice(2)
    /\ hist[1].op = "_gzip_fastq"
    /\ hist[1].args.out_dir = "fastq"
    /\ hist[1].cmds # {}
    /\ hist[2].cmds = {}

-----------------------------------------------------------------------------
(* merge *)

\* move_file leaving the source in place, as a copy would
move_file_keeps_source(f, src, dst) == WriteFile(f, dst, f[src])

\* shutil.move(src, dst)
move_file(f, src, dst) ==
    IF src = dst THEN f ELSE RemoveFile(WriteFile(f, dst, f[src]), src)

\* the bytes "cat files" writes
RECURSIVE cat_contents(_, _)
cat_contents(files, f) ==
    IF files = <<>> THEN <<>>
    ELSE f[Head(files)] \o cat_contents(Tail(files), f)

\* line 128: the merged file is already there
merge_cached(f, out_file) == file_exists(f, out_file)

MRet(exc, f, run) == [exc |-> exc, fs |-> f, cmds |-> run]

\* merge_precondition with the existence check first
merge_precondition_exists_first(files, f) ==
    IF ~ \A i \in 1..Len(files) : file_exists(f, files[i]) THEN "AssertionError"
    ELSE IF ~ \A i \in 1..Len(files) : is_fastq(files[i]) THEN "ValueError"
    ELSE "ok"

\* lines 124-127: the two checks _merge_list_fastqs starts with
merge_precondition(files, f) ==
    IF ~ \A i \in 1..Len(files) : is_fastq(files[i]) THEN "ValueError"
    ELSE IF ~ \A i \in 1..Len(files) : file_exists(f, files[i]) THEN "AssertionError"
    ELSE "ok"

\* _merge_list_fastqs(files, out_file, config), run to completion
_merge_list_fastqs(files, out_file, f) ==
    IF merge_precondition(files, f) # "ok"
    THEN MRet(merge_precondition(files, f), f, {})
    ELSE IF ~merge_cached(f, out_file)
    THEN LET g == gzip_all(files, NoDir, f)
         IN  IF ~g.ok THEN MRet("CalledProcessError", g.fs, g.cmds)
             ELSE IF Len(g.rets) = 1
             THEN MRet("ok", move_file(g.fs, g.rets[1], out_file),
                       g.cmds \cup {Cmd("move", g.rets[1], <<out_file>>)})
             ELSE MRet("ok", WriteFile(g.fs, out_file, cat_contents(g.rets, g.fs)),
                       g.cmds \cup {Cmd("cat", None, <<out_file>>)})
    ELSE MRet("ok", f, {})

\* splitext_plus(out_file): path[0] + suffix + path[1]
with_suffix(out_file, suffix) == [out_file EXCEPT !.sfx = Append(out_file.sfx, suffix)]

pair1_out_file(out_file) == with_suffix(out_file, "_R1")

pair2_out_file(out_file) == with_suffix(out_file, "_R2")

\* mates taking the first member of every file set
mates_first_only(files, k) == [i \in 1..Len(files) |-> files[i][1]]

\* [fastq_file[k] for fastq_file in files]
mates(files, k) == [i \in 1..Len(files) |-> files[i][k]]

merged_fastq_gz == Path("local", "merged", "m", <<>>, <<"fastq", "gz">>)

\* the per-sample file sets of a merge call: single-end or paired
SingleSets == {<<p>> : p \in LocalInputs}

PairSets ==
    {<<in_a_fastq, in_c_fastq_gz>>, <<in_a_fastq_bz2, in_c_fastq_gz>>,
     <<in_c_fastq_gz, in_a_fastq_bz2>>, <<in_c_fastq_gz, in_b_bam>>}

MergeArgs ==
    [files : UNION {[1..n -> SingleSets] \cup [1..n -> PairSets] : n \in 1..MaxSets},
     out_file : {merged_fastq_gz}]

LastCall == hist[Len(hist)]

\* the output paths of merge(a.files, a.out_file, config)
merge_targets(a) ==
    IF Len(a.files[1]) > 1
    THEN {pair1_out_file(a.out_file), pair2_out_file(a.out_file)}
    ELSE {a.out_file}

\* the running call ends: its record in hist is completed
Finish(exc, ret, f, run) ==
    /\ pc' = "idle"
    /\ fs' = f
    /\ cmds' = run
    /\ outcome' = exc
    /\ result' = ret
    /\ hist' = [hist EXCEPT ![Len(hist)] =
                   CallRec("merge", args, exc, ret, run, LastCall.cached,
                           LastCall.changed \/ f # fs)]

\* lines 108-111; a call after the first one repeats the first one's arguments
merge_entry ==
    /\ UNCHANGED txvars
    /\ pc = "idle"
    /\ Len(hist) < MaxCalls
    /\ \E a \in MergeArgs :
        /\ hist # <<>> => a = LastCall.args
        /\ args' = a
        /\ pc' = IF Len(a.files[1]) > 1 THEN "merge_pair1" ELSE "merge_single"
        /\ hist' = Append(hist,
               CallRec("merge", a, "none", <<>>, {},
                       \A o \in merge_targets(a) : file_exists(fs, o), FALSE))
    /\ cmds' = {}
    /\ outcome' = "none"
    /\ result' = <<>>
    /\ UNCHANGED <<fs, dirs, data, idx, ready_files, ready_src, should_gzip>>

\* lines 119-120
merge_single ==
    /\ UNCHANGED txvars
    /\ pc = "merge_single"
    /\ LET r == _merge_list_fastqs(mates(args.files, 1), args.out_file, fs)
       IN  Finish(r.exc, IF r.exc = "ok" THEN <<args.out_file>> ELSE <<>>,
                  r.fs, cmds \cup r.cmds)
    /\ UNCHANGED <<dirs, data, idx, ready_files, ready_src, should_gzip, args>>

\* lines 112-116
merge_pair1 ==
    /\ UNCHANGED txvars
    /\ pc = "merge_pair1"
    /\ LET r == _merge_list_fastqs(mates(args.files, 1),
                                   pair1_out_file(args.out_file), fs)
       IN  IF r.exc = "ok"
           THEN /\ pc' = "merge_pair2"
                /\ fs' = r.fs
                /\ cmds' = cmds \cup r.cmds
                /\ hist' = [hist EXCEPT ![Len(hist)].changed = @ \/ r.fs # fs]
                /\ UNCHANGED <<outcome, result>>
           ELSE Finish(r.exc, <<>>, r.fs, cmds \cup r.cmds)
    /\ UNCHANGED <<dirs, data, idx, ready_files, ready_src, should_gzip, args>>

\* lines 117-118
merge_pair2 ==
    /\ UNCHANGED txvars
    /\ pc = "merge_pair2"
    /\ LET r == _merge_list_fastqs(mates(args.files, 2),
                                   pair2_out_file(args.out_file), fs)
       IN  Finish(r.exc,
                  IF r.exc = "ok"
                  THEN <<pair1_out_file(args.out_file), pair2_out_file(args.out_file)>>
                  ELSE <<>>,
                  r.fs, cmds \cup r.cmds)
    /\ UNCHANGED <<dirs, data, idx, ready_files, ready_src, should_gzip, args>>

NextMerge ==
    \/ merge_entry
    \/ merge_single
    \/ merge_pair1
    \/ merge_pair2

SpecMerge == Init /\ [][NextMerge]_vars

\* C10: merge is idempotent: a call that finds its target output present
\* returns it as a success without recomputation, so a second call with the
\* same arguments after a successful first call succeeds with the same
\* output path(s), runs nothing and changes no file.
C10_MergeIdempotent ==
    \A k \in 1..Len(hist) :
        (/\ hist[k].exc # "none"
         /\ \/ hist[k].cached
            \/ /\ k > 1
               /\ hist[k - 1].exc = "ok"
               /\ hist[k].args = hist[k - 1].args) =>
            /\ hist[k].exc = "ok"
            /\ hist[k].ret = IF Len(hist[k].args.files[1]) > 1
                             THEN <<pair1_out_file(hist[k].args.out_file),
                                    pair2_out_file(hist[k].args.out_file)>>
                             ELSE <<hist[k].args.out_file>>
            /\ hist[k].cmds = {}
            /\ ~hist[k].changed

-----------------------------------------------------------------------------
(* Properties of merge *)

\* the path gzip normalisation without an output directory returns for p
NormPath(p) ==
    IF is_gzipped(p) THEN p
    ELSE add_ext(IF is_bzipped(p) THEN splitext_base(p) ELSE p, "gz")

\* the gzip-compressed form of input p, computed from p's own bytes
NormContent(p) ==
    IF is_gzipped(p) THEN RawContent(p)
    ELSE IF is_bzipped(p) THEN BunzipGzipOf(RawContent(p))
    ELSE GzipOf(RawContent(p))

\* in-order concatenation of the original bytes of the inputs
RECURSIVE RawCat(_)
RawCat(files) ==
    IF files = <<>> THEN <<>> ELSE RawContent(Head(files)) \o RawCat(Tail(files))

\* in-order concatenation of the files now at the normalised paths
RECURSIVE NormCat(_)
NormCat(files) ==
    IF files = <<>> THEN <<>> ELSE fs[NormPath(Head(files))] \o NormCat(Tail(files))

\* what a merge of this list leaves at its output: the normalised file
\* itself for one input, the concatenation of the normalised files otherwise
MergedContent(files) ==
    IF Len(files) = 1 THEN NormContent(files[1]) ELSE NormCat(files)

FirstOk == hist # <<>> /\ hist[1].op = "merge" /\ hist[1].exc = "ok"

IsPaired(a) == Len(a.files[1]) > 1

\* C11 as stated: the merged output is the byte concatenation of the inputs
\* in input order: one file equal to cat(a, b, c) for a single-end merge,
\* and for a paired merge exactly two files, suffixed _R1 and _R2, each the
\* in-order concatenation of the respective mates.
C11_MergeIsConcatenation ==
    (FirstOk /\ Len(hist[1].args.files) >= 2) =>
        LET a == hist[1].args
        IN  IF IsPaired(a)
            THEN /\ hist[1].ret = <<pair1_out_file(a.out_file),
                                    pair2_out_file(a.out_file)>>
                 /\ \A k \in 1..2 : fs[hist[1].ret[k]] = RawCat(mates(a.files, k))
            ELSE /\ hist[1].ret = <<a.out_file>>
                 /\ fs[a.out_file] = RawCat(mates(a.files, 1))

\* C11 amended: a merge that finds no output present leaves the in-order
\* concatenation of the gzip-normalised inputs (an input that is already
\* gzip-compressed, otherwise the .gz file normalisation returns for it):
\* one file for a single-end merge, exactly two files suffixed _R1 and _R2
\* for a paired merge, each built from the respective mates; the output is
\* the byte concatenation of the inputs themselves when all of them are
\* gzip-compressed.
C11_MergeConcatNormalised ==
    FirstOk =>
        LET a == hist[1].args
            outs == IF IsPaired(a)
                    THEN <<pair1_out_file(a.out_file), pair2_out_file(a.out_file)>>
                    ELSE <<a.out_file>>
        IN  /\ hist[1].ret = outs
            /\ \A k \in 1..Len(outs) :
                  LET m == [i \in 1..Len(a.files) |-> a.files[i][k]]
                  IN  /\ file_exists(fs, outs[k])
                      /\ fs[outs[k]] = MergedContent(m)
                      /\ (\A i \in 1..Len(m) : is_gzipped(m[i])) =>
                            fs[outs[k]] = RawCat(m)

C11_Witness ==
    /\ FirstOk
    /\ pc = "idle"
    /\ hist[1].args.files = <<<<in_a_fastq, in_c_fastq_gz>>,
                              <<in_a_fastq_bz2, in_c_fastq_gz>>>>
    /\ file_exists(fs, pair1_out_file(merged_fastq_gz))
    /\ file_exists(fs, pair2_out_file(merged_fastq_gz))

\* a first merge call, successful, of one single-end file
SingleFileMerge ==
    /\ FirstOk
    /\ ~IsPaired(hist[1].args)
    /\ Len(hist[1].args.files) = 1

\* C12 as stated: a merge of one single-end input skips concatenation and
\* moves one file to the output path, whose content is then byte-identical
\* to the original input's content, for compressed and uncompressed inputs
\* alike.
C12_SingleMoveIdentical ==
    SingleFileMerge =>
        LET a == hist[1].args
        IN  /\ \A c \in hist[1].cmds : c.cmd # "cat"
            /\ \E c \in hist[1].cmds : c.cmd = "move" /\ c.out = <<a.out_file>>
            /\ fs[a.out_file] = RawContent(a.files[1][1])

\* C12 amended: a merge of one single-end input that finds no output present
\* skips concatenation and moves the gzip-normalised file to the output
\* path: the input itself when it is gzip-compressed, and then the output is
\* byte-identical to the input; otherwise the .gz file created from the
\* input, and then the output holds the compressed form of the input's
\* bytes.  The moved file no longer exists at its former path.
C12_SingleMoveNormalised ==
    SingleFileMerge =>
        LET a == hist[1].args
            in_file == a.files[1][1]
        IN  /\ \A c \in hist[1].cmds : c.cmd # "cat"
            /\ Cmd("move", NormPath(in_file), <<a.out_file>>) \in hist[1].cmds
            /\ hist[1].ret = <<a.out_file>>
            /\ fs[a.out_file] = NormContent(in_file)
            /\ is_gzipped(in_file) => fs[a.out_file] = RawContent(in_file)
            /\ ~is_gzipped(in_file) =>
                  /\ fs[a.out_file] # RawContent(in_file)
                  /\ fs[in_file] = RawContent(in_file)
            /\ ~file_exists(fs, NormPath(in_file))

C12_Witness ==
    /\ SingleFileMerge
    /\ pc = "idle"
    /\ hist[1].args.files = <<<<in_a_fastq>>>>
    /\ fs[merged_fastq_gz] = GzipOf(RawContent(in_a_fastq))

\* the file list the next step of the running merge hands to _merge_list_fastqs
ListAtStep ==
    IF pc = "merge_pair2" THEN mates(args.files, 2) ELSE mates(args.files, 1)

AtListStep == pc \in {"merge_single", "merge_pair1", "merge_pair2"}

NotFastqIn(files) == \E i \in 1..Len(files) : ~is_fastq(files[i])

MissingIn(files) == \E i \in 1..Len(files) : ~file_exists(fs, files[i])

\* C13: a file list with an input not in a read format fails with the
\* ValueError, one with a missing input with the AssertionError; either way
\* before any compression, move or concatenation of that list (no command
\* runs, no file changes), the read-format check taking precedence over the
\* existence check; and the two errors are raised in no other case.
C13_PreconditionsFirst ==
    [][AtListStep =>
          /\ NotFastqIn(ListAtStep) =>
                /\ outcome' = "ValueError"
                /\ pc' = "idle"
                /\ fs' = fs
                /\ cmds' = cmds
                /\ result' = <<>>
          /\ (~NotFastqIn(ListAtStep) /\ MissingIn(ListAtStep)) =>
                /\ outcome' = "AssertionError"
                /\ pc' = "idle"
                /\ fs' = fs
                /\ cmds' = cmds
                /\ result' = <<>>
          /\ outcome' = "ValueError" => NotFastqIn(ListAtStep)
          /\ outcome' = "AssertionError" =>
                ~NotFastqIn(ListAtStep) /\ MissingIn(ListAtStep)]_vars

C13_Witness ==
    /\ pc = "idle"
    /\ outcome = "ValueError"
    /\ Len(hist) = 1
    /\ hist[1].args.files = <<<<in_a_fastq>>, <<in_b_bam>>>>
    /\ ~file_exists(fs, in_a_fastq)
    /\ hist[1].cmds = {}

PreconditionErrors == {"ValueError", "AssertionError"}

\* C14: a merge call that aborts on a precondition violation, anywhere among
\* its inputs (second mates of a paired merge included), leaves no partial
\* result: it has created no output file and has moved or compressed no
\* input, and it returns nothing.
C14_AbortLeavesNothing ==
    \A k \in 1..Len(hist) :
        hist[k].exc \in PreconditionErrors =>
            /\ hist[k].ret = <<>>
            /\ hist[k].cmds = {}
            /\ ~hist[k].changed

\* C17: inputs are immutable: no step of a call removes an input file from
\* its original path or changes its content, so after any sequence of calls
\* every input still exists there with its original content.
C17_InputsImmutable ==
    [][\A p \in LocalInputs :
          file_exists(fs, p) => file_exists(fs', p) /\ fs'[p] = fs[p]]_vars

-----------------------------------------------------------------------------
(* Content of the staged files *)

\* C19: each gzip file staging returns holds the compressed content of the
\* input it was derived from, also when two local inputs of the batch map to
\* the same derived path: the existence short-circuit never hands an input
\* the output made from another input.
C19_OwnContent ==
    (Returned /\ ~data.bowtie_ref /\ ~needs_groom(data)) =>
        \A k \in 1..Len(result) :
            LET src == data.files[ready_src[k]]
            IN  (is_fastq(src) /\ ~is_remote(src)) =>
                    /\ is_gzipped(result[k])
                    /\ fs[result[k]] = NormContent(src)

-----------------------------------------------------------------------------
(* Staging run again *)

\* the arguments of a staging call that is going to be repeated
RestageDataSet == {d \in DataSet : Len(d.files) <= MaxRestageFiles}

\* lines 17-26: the first of the successive calls
get_fastq_files_first == StageEntry(RestageDataSet)

\* get_fastq_files(data) called again with the arguments of the run that has
\* just returned, on the files that run left behind (lines 17-26)
get_fastq_files_again ==
    /\ UNCHANGED txvars
    /\ pc = "done"
    /\ Len(hist) + 1 < MaxCalls
    /\ hist' = Append(hist,
           CallRec("get_fastq_files", data, outcome, result, cmds, FALSE, TRUE))
    /\ pc' = IF data.files = <<>> THEN "gzip" ELSE "loop"
    /\ should_gzip' = compute_should_gzip(data)
    /\ idx' = 1
    /\ ready_files' = <<>>
    /\ ready_src' = <<>>
    /\ cmds' = {}
    /\ outcome' = "none"
    /\ result' = <<>>
    /\ UNCHANGED <<fs, dirs, data, args>>

NextRestage ==
    \/ get_fastq_files_first
    \/ resolve_bam_convert
    \/ resolve_bam_asis
    \/ resolve_remote
    \/ resolve_groom
    \/ resolve_asis
    \/ filter_and_gzip
    \/ check_and_return
    \/ get_fastq_files_again

SpecRestage == Init /\ [][NextRestage]_vars

\* C18: staging is deterministic and idempotent: a run that repeats a run
\* that returned, with the same input list and configuration on the files
\* that run left, returns the same result list, and it executes no gzip and
\* no bunzip2 command because the outputs already exist.
C18_StagingIdempotent ==
    hist # <<>> =>
        /\ pc # "failed"
        /\ GzipCmds = {}
        /\ Returned => result = hist[Len(hist)].ret

C18_Witness ==
    /\ Len(hist) = 1
    /\ Returned
    /\ result = hist[1].ret
    /\ Len(result) = 2
    /\ \E c \in hist[1].cmds : c.cmd = "gzip"
    /\ \E c \in hist[1].cmds : c.cmd = "groom"

-----------------------------------------------------------------------------
(* The transforms step by step: transactions, crashes, two processes *)

\* the directory file_transaction makes for a process: private to it
tx_dir(p) == IF p = "p1" THEN "tx1" ELSE "tx2"

TxDirs == {tx_dir(p) : p \in Procs}

\* the temporary path file_transaction(out) yields in process p
TxPath(p, out) == [out EXCEPT !.dir = tx_dir(p)]

\* tx_out_file with the command writing straight to the final path
tx_out_file_direct(p, out) == out

\* lines 67-69, 89-91, 134-136: the path the command line redirects to is
\* the one the transaction yields, not the final path
tx_out_file(p, out) == TxPath(p, out)

\* a file a command is still writing: part of content c
Partial(c) == <<Chunk("partial", None, c)>>

\* the calls run step by step
TxTasks ==
    {Task(op, in_file, out_dir, <<>>, None) :
        op \in {"_gzip_fastq", "_bzip_gzip"},
        in_file \in {in_a_fastq, in_a_fastq_bz2, in_c_fastq_gz},
        out_dir \in OutDirs}
    \cup {Task("merge", None, NoDir, a.files, a.out_file) :
             a \in {b \in MergeArgs : Len(b.files) <= MaxTxSets}}

\* merge(files, out_file, config), run to completion on file system f
merge(files, out_file, f) ==
    IF Len(files[1]) > 1
    THEN LET r1 == _merge_list_fastqs(mates(files, 1), pair1_out_file(out_file), f)
         IN  IF r1.exc # "ok" THEN r1
             ELSE _merge_list_fastqs(mates(files, 2), pair2_out_file(out_file), r1.fs)
    ELSE _merge_list_fastqs(mates(files, 1), out_file, f)

\* the file list and the output of the _merge_list_fastqs call process
\* state l is in
cur_files(l) == mates(l.task.files, l.list)

cur_out_file(l) ==
    IF Len(l.task.files[1]) > 1
    THEN IF l.list = 1 THEN pair1_out_file(l.task.out_file)
         ELSE pair2_out_file(l.task.out_file)
    ELSE l.task.out_file

\* the file being normalised and its output directory (line 129 passes none)
cur_in_file(l) == IF l.task.op = "merge" THEN cur_files(l)[l.j] ELSE l.task.in_file

cur_out_dir(l) == IF l.task.op = "merge" THEN NoDir ELSE l.task.out_dir

\* which transform the file takes: _gzip_fastq lines 56-59, _bzip_gzip
\* lines 76-77 and 85
norm_branch(op, in_file) ==
    IF op = "_bzip_gzip"
    THEN IF /\ is_bzipped(in_file)
            /\ is_fastq(splitext_base(in_file))
            /\ ~is_remote(in_file)
         THEN "bzip" ELSE "asis"
    ELSE gzip_branch(in_file)

\* the call raises exc
raised(l, exc) == [l EXCEPT !.at = "idle", !.exc = exc]

\* _merge_list_fastqs returns: merge goes on with the second mates (line 117)
\* or returns (lines 118, 120)
list_done(l) ==
    IF Len(l.task.files[1]) > 1 /\ l.list = 1
    THEN [l EXCEPT !.list = 2, !.at = "m_pre", !.j = 1, !.norm = <<>>]
    ELSE [l EXCEPT !.at = "idle", !.exc = "ok"]

\* _gzip_fastq returns path for the file at hand: the loop of line 129 goes
\* on, or a direct call returns
normalised(l, path) ==
    IF l.task.op = "merge"
    THEN IF l.j = Len(cur_files(l))
         THEN [l EXCEPT !.norm = Append(@, path), !.at = "m_join"]
         ELSE [l EXCEPT !.norm = Append(@, path), !.j = @ + 1, !.at = "gz_begin"]
    ELSE [l EXCEPT !.norm = <<path>>, !.at = "idle", !.exc = "ok"]

\* a process begins a call; a process that calls again repeats its call, and
\* concurrent processes run the same call
call(p, max_runs) ==
    /\ procs[p].at = "idle"
    /\ procs[p].runs < max_runs
    /\ \E t \in TxTasks :
        /\ procs[p].runs > 0 => t = procs[p].task
        /\ \A q \in Procs : procs[q].runs > 0 => t = procs[q].task
        /\ procs' = [procs EXCEPT ![p] =
               [@ EXCEPT !.task = t,
                         !.at = IF t.op = "merge" THEN "m_pre" ELSE "gz_begin",
                         !.list = 1, !.j = 1, !.norm = <<>>, !.target = None,
                         !.txcmd = "", !.exc = "none", !.runs = @ + 1,
                         !.faulted = FALSE]]
    /\ UNCHANGED <<fs, dirs, pc, data, idx, ready_files, ready_src, should_gzip,
                   cmds, outcome, result, args, hist, fs0>>

\* _merge_list_fastqs lines 124-128: the preconditions and the check for a
\* merged file that is already there
m_pre(p) ==
    /\ procs[p].at = "m_pre"
    /\ LET l == procs[p]
           pre == merge_precondition(cur_files(l), fs)
       IN  procs' = [procs EXCEPT ![p] =
               IF pre # "ok" THEN raised(l, pre)
               ELSE IF merge_cached(fs, cur_out_file(l)) THEN list_done(l)
               ELSE [l EXCEPT !.at = "gz_begin", !.j = 1, !.norm = <<>>]]
    /\ UNCHANGED <<fs, dirs, pc, data, idx, ready_files, ready_src, should_gzip,
                   cmds, outcome, result, args, hist, fs0>>

\* _gzip_fastq lines 56-65 and 72, _bzip_gzip lines 76-87 and 93: the
\* branch, the gzipped path and the existence short-circuit
gz_begin(p) ==
    /\ procs[p].at = "gz_begin"
    /\ LET l == procs[p]
           in_file == cur_in_file(l)
           b == norm_branch(l.task.op, in_file)
           gzipped_file == IF b = "bzip"
                           THEN bzip_gzipped_file(in_file, cur_out_dir(l))
                           ELSE gzip_gzipped_file(in_file, cur_out_dir(l))
           cached == IF b = "bzip" THEN bzip_gzip_cached(fs, gzipped_file)
                     ELSE gzip_cached(fs, gzipped_file)
       IN  procs' = [procs EXCEPT ![p] =
               IF b = "asis" THEN normalised(l, in_file)
               ELSE IF cached THEN normalised(l, gzipped_file)
               ELSE [l EXCEPT !.at = "tx_run", !.target = gzipped_file,
                              !.txcmd = IF b = "bzip" THEN "bunzip2_gzip"
                                        ELSE "gzip"]]
    /\ UNCHANGED <<fs, dirs, pc, data, idx, ready_files, ready_src, should_gzip,
                   cmds, outcome, result, args, hist, fs0>>

\* the files the command of the open transaction reads, and what it writes
tx_inputs(l) == IF l.txcmd = "cat" THEN l.norm ELSE <<cur_in_file(l)>>

tx_content(l, f) ==
    IF l.txcmd = "cat" THEN cat_contents(l.norm, f)
    ELSE IF l.txcmd = "gzip" THEN GzipOf(f[cur_in_file(l)])
    ELSE BunzipGzipOf(f[cur_in_file(l)])

\* lines 67-70, 89-92, 134-137: inside file_transaction, do.run starts the
\* command, which begins to write the file it is redirected to; with an
\* input missing the command fails and the call raises
tx_run(p) ==
    /\ procs[p].at = "tx_run"
    /\ LET l == procs[p]
       IN  IF \A i \in 1..Len(tx_inputs(l)) : file_exists(fs, tx_inputs(l)[i])
           THEN /\ fs' = WriteFile(fs, tx_out_file(p, l.target),
                                   Partial(tx_content(l, fs)))
                /\ procs' = [procs EXCEPT ![p].at = "tx_writing"]
           ELSE /\ procs' = [procs EXCEPT ![p] = raised(l, "CalledProcessError")]
                /\ UNCHANGED fs
    /\ UNCHANGED <<dirs, pc, data, idx, ready_files, ready_src, should_gzip,
                   cmds, outcome, result, args, hist, fs0>>

\* the command completes: the file it wrote holds the whole output
tx_written(p) ==
    /\ procs[p].at = "tx_writing"
    /\ LET tmp == tx_out_file(p, procs[p].target)
       IN  fs' = WriteFile(fs, tmp, fs[tmp][1].of)
    /\ procs' = [procs EXCEPT ![p].at = "tx_commit"]
    /\ UNCHANGED <<dirs, pc, data, idx, ready_files, ready_src, should_gzip,
                   cmds, outcome, result, args, hist, fs0>>

\* the command fails while writing: do.run raises, the transaction removes
\* its temporary file and the call raises
cmd_fails(p) ==
    /\ procs[p].at = "tx_writing"
    /\ fs' = RemoveFile(fs, TxPath(p, procs[p].target))
    /\ procs' = [procs EXCEPT ![p] =
           [raised(@, "CalledProcessError") EXCEPT !.faulted = TRUE]]
    /\ UNCHANGED <<dirs, pc, data, idx, ready_files, ready_src, should_gzip,
                   cmds, outcome, result, args, hist, fs0>>

\* leaving file_transaction: the temporary file is renamed onto the final
\* path in one step; lines 71, 92 and 138 then return
tx_commit(p) ==
    /\ procs[p].at = "tx_commit"
    /\ LET l == procs[p]
       IN  /\ fs' = IF file_exists(fs, TxPath(p, l.target))
                    THEN move_file(fs, TxPath(p, l.target), l.target)
                    ELSE fs
           /\ procs' = [procs EXCEPT ![p] =
                  IF l.txcmd = "cat" THEN list_done(l)
                  ELSE normalised(l, l.target)]
    /\ UNCHANGED <<dirs, pc, data, idx, ready_files, ready_src, should_gzip,
                   cmds, outcome, result, args, hist, fs0>>

\* lines 130-134: one normalised file is moved onto the output (the move
\* raises when the file is gone), several are handed to cat
m_join(p) ==
    /\ procs[p].at = "m_join"
    /\ LET l == procs[p]
       IN  IF Len(l.norm) = 1
           THEN IF file_exists(fs, l.norm[1])
                THEN /\ fs' = move_file(fs, l.norm[1], cur_out_file(l))
                     /\ procs' = [procs EXCEPT ![p] = list_done(l)]
                ELSE /\ procs' = [procs EXCEPT ![p] = raised(l, "IOError")]
                     /\ UNCHANGED fs
           ELSE /\ procs' = [procs EXCEPT ![p] =
                       [l EXCEPT !.at = "tx_run", !.target = cur_out_file(l),
                                 !.txcmd = "cat"]]
                /\ UNCHANGED fs
    /\ UNCHANGED <<dirs, pc, data, idx, ready_files, ready_src, should_gzip,
                   cmds, outcome, result, args, hist, fs0>>

\* the process dies between two steps of its call; what it wrote stays
crash(p) ==
    /\ procs[p].at # "idle"
    /\ procs' = [procs EXCEPT ![p] =
           [@ EXCEPT !.at = "idle", !.exc = "crashed", !.crashed = TRUE]]
    /\ UNCHANGED <<fs, dirs, pc, data, idx, ready_files, ready_src, should_gzip,
                   cmds, outcome, result, args, hist, fs0>>

\* two processes, each running the same call once, no fault
call_once(p) == call(p, 1)

NextConc ==
    \/ \E p \in Procs : call_once(p)
    \/ \E p \in Procs : m_pre(p)
    \/ \E p \in Procs : gz_begin(p)
    \/ \E p \in Procs : tx_run(p)
    \/ \E p \in Procs : tx_written(p)
    \/ \E p \in Procs : tx_commit(p)
    \/ \E p \in Procs : m_join(p)

SpecConc == Init /\ [][NextConc]_vars

\* one process whose calls may crash or have their command fail, and which
\* then calls again with the same arguments
call_again(p) == call(p, MaxCalls)

NextCrash ==
    \/ call_again("p1")
    \/ m_pre("p1")
    \/ gz_begin("p1")
    \/ tx_run("p1")
    \/ tx_written("p1")
    \/ cmd_fails("p1")
    \/ tx_commit("p1")
    \/ m_join("p1")
    \/ crash("p1")

SpecCrash == Init /\ [][NextCrash]_vars

-----------------------------------------------------------------------------
(* Properties of the step-by-step runs *)

\* content c has a part that a command had not finished writing
RECURSIVE HasPartial(_)
HasPartial(c) ==
    \E i \in 1..Len(c) : c[i].op = "partial" \/ HasPartial(c[i].of)

\* the paths outside the transactions' temporary directories
CanonicalPaths == {q \in DOMAIN fs : q.dir \notin TxDirs}

\* how the call t ends when it runs alone and uninterrupted on file system f
SoloExc(t, f) ==
    IF t.op = "merge" THEN merge(t.files, t.out_file, f).exc
    ELSE IF t.op = "_gzip_fastq"
    THEN IF _gzip_fastq(t.in_file, t.out_dir, f).ok THEN "ok"
         ELSE "CalledProcessError"
    ELSE IF _bzip_gzip(t.in_file, t.out_dir, f).ok THEN "ok"
         ELSE "CalledProcessError"

Ended(l) == l.at = "idle" /\ l.runs > 0 /\ l.exc \notin {"none", "crashed"}

\* C15: in every reachable state, also after a crash or a command failure
\* at any step of gzip normalisation, bzip2-to-gzip conversion or merge
\* concatenation, a canonical output path does not exist or holds a complete
\* result: unfinished data only ever sits at a transaction's temporary
\* path, and the path of an open transaction is written by the rename alone.
C15_OutputAbsentOrComplete ==
    /\ \A q \in CanonicalPaths : ~HasPartial(fs[q])
    /\ \A p \in Procs :
          procs[p].at = "tx_writing" =>
              /\ HasPartial(fs[TxPath(p, procs[p].target)])
              /\ file_exists(fs, procs[p].target) =>
                    ~HasPartial(fs[procs[p].target])

C15_Witness ==
    /\ procs["p1"].exc = "crashed"
    /\ procs["p1"].txcmd = "cat"
    /\ file_exists(fs, TxPath("p1", procs["p1"].target))
    /\ HasPartial(fs[TxPath("p1", procs["p1"].target)])
    /\ ~file_exists(fs, procs["p1"].target)

\* C16: two processes running the same transform on the same output, under
\* any interleaving, never leave or see a partial file at an output path,
\* and both finish successfully whenever the call succeeds when run alone.
C16_BothSucceed ==
    /\ \A q \in CanonicalPaths : ~HasPartial(fs[q])
    /\ \A p \in Procs :
          (Ended(procs[p]) /\ SoloExc(procs[p].task, fs0) = "ok") =>
              procs[p].exc = "ok"

\* C20: a merge interrupted by a crash between two of its steps and invoked
\* again with the same arguments, without further crash or command failure,
\* completes successfully and leaves the output files an uninterrupted merge
\* leaves.
C20_RetryCompletes ==
    LET l == procs["p1"]
    IN  (/\ Ended(l)
         /\ l.crashed
         /\ ~l.faulted
         /\ l.task.op = "merge"
         /\ SoloExc(l.task, fs0) = "ok") =>
            /\ l.exc = "ok"
            /\ \A o \in merge_targets(l.task) :
                  /\ file_exists(fs, o)
                  /\ fs[o] = merge(l.task.files, l.task.out_file, fs0).fs[o]

====
